---- MODULE Spec2Model ----
(***************************************************************************)
(* Model of bioparser (include/bioparser/bioparser.hpp): the chunked,      *)
(* resumable parse_objects of the four format parsers (FastaParser,        *)
(* FastqParser, MhapParser, PafParser) over a FILE stream, with the        *)
(* storage_ byte buffer, the fread/feof/fseek semantics of the stream and  *)
(* the caller's parse loop.                                                *)
(*                                                                         *)
(* Bytes are one-character strings.  The buffer and storage sizes are      *)
(* scaled down (the source values are in the comments); the field counts   *)
(* of the line formats are the source's.                                   *)
(***************************************************************************)
EXTENDS Integers, Sequences, FiniteSets, TLC

(***************************************************************************)
(* Sizes.  bioparser.hpp:17-22 sets kBufferSize = 64 KiB, kSSS = 1 KiB,    *)
(* kMSS = 8 MiB, kLSS = 512 MiB; the model keeps the roles and scales the  *)
(* values.  kSSS must hold one 12-field line of the line formats.          *)
(***************************************************************************)
kBufferSize == 4

kSSS == 28

kMSS == 2

kLSS == 12

kMhapObjectLength == 12

kPafObjectLength == 12

(***************************************************************************)
(* Bounds of the input streams.                                            *)
(***************************************************************************)
MaxLines == 4

MaxFastqLines == 8

MaxRecordLines == 2

(***************************************************************************)
(* Bytes.                                                                  *)
(***************************************************************************)
NL == "\n"

NUL == "NUL"

isspace(c) == c \in {" ", "\t", "\n", "\r", "\f"}

isdigit(c) == c \in {"0", "1", "2", "3", "4", "5", "6", "7", "8", "9"}

DigitVal(c) ==
    CASE c = "0" -> 0 [] c = "1" -> 1 [] c = "2" -> 2 [] c = "3" -> 3
      [] c = "4" -> 4 [] c = "5" -> 5 [] c = "6" -> 6 [] c = "7" -> 7
      [] c = "8" -> 8 [] c = "9" -> 9

Min(a, b) == IF a < b THEN a ELSE b

RECURSIVE Zeros(_)
Zeros(n) == IF n = 0 THEN <<>> ELSE Append(Zeros(n - 1), NUL)

(* storage_ is a std::vector<char>; At/Put are its 0-based operator[].    *)
At(st, i) == st[i + 1]

Put(st, i, c) == [st EXCEPT ![i + 1] = c]

InBounds(st, i) == i >= 0 /\ i < Len(st)

(* A resize that does not keep the bytes already stored.                  *)
ResizeCleared(st, n) == Zeros(n)

(* std::vector::resize(n, 0): grows with zero bytes, keeps the prefix;    *)
(* a resize to the current size changes nothing.                          *)
Resize(st, n) ==
    IF n > Len(st) THEN st \o Zeros(n - Len(st))
    ELSE IF n < Len(st) THEN SubSeq(st, 1, n)
    ELSE st

(* The bytes [off, off + len) of storage_, as the record constructor      *)
(* copies them (std::string(ptr, len) in the tests' Read and Overlap).    *)
Span(st, off, len) == IF len <= 0 THEN <<>> ELSE SubSeq(st, off + 1, off + len)

(* while (len > 0 && isspace(p[len - 1])) --len;                          *)
RECURSIVE TrimLength(_, _, _)
TrimLength(st, off, len) ==
    IF len > 0 /\ isspace(At(st, off + len - 1))
    THEN TrimLength(st, off, len - 1)
    ELSE len

(***************************************************************************)
(* The state of one parse_objects call while its buffer is scanned: the    *)
(* call's locals (bioparser.hpp:195-209 and the like), the members         *)
(* storage_ and the destination, and how the scan ended:                   *)
(*   fatal  "none", or the error whose fprintf + exit(1) ended the process *)
(*   ub     a write outside storage_ happened (undefined behaviour)        *)
(***************************************************************************)
Write(s, i, c) ==
    IF InBounds(s.storage, i)
    THEN [s EXCEPT !.storage = Put(s.storage, i, c)]
    ELSE [s EXCEPT !.ub = TRUE]

(* The record the tests' Read(name, name_length, data, data_length[,      *)
(* quality, quality_length]) builds: copies of the spans.                 *)
Read(name, data, quality) == [name |-> name, data |-> data, quality |-> quality]

(***************************************************************************)
(* FastaParser::parse_objects, the body of the byte loop.                  *)
(***************************************************************************)
FastaResetLengths(s) ==
    [s EXCEPT !.num_objects = s.num_objects + 1,
              !.current_bytes = 1,
              !.name_length = 1,
              !.data_length = 0,
              !.is_valid = FALSE]

FastaEmitUnvalidated(s) ==
    LET nl == TrimLength(s.storage, 0, s.name_length)
        dl == TrimLength(s.storage, kSSS, s.data_length)
    IN  FastaResetLengths(
            [s EXCEPT !.name_length = nl, !.data_length = dl,
                      !.dst = Append(s.dst,
                          Read(Span(s.storage, 1, nl - 1),
                               Span(s.storage, kSSS, dl), <<>>))])

FastaEmit(s) ==
    LET nl == TrimLength(s.storage, 0, s.name_length)
        dl == TrimLength(s.storage, kSSS, s.data_length)
    IN  IF nl = 0 \/ At(s.storage, 0) # ">" \/ dl = 0
        THEN [s EXCEPT !.name_length = nl, !.data_length = dl,
                       !.fatal = "InvalidFormat"]
        ELSE FastaResetLengths(
                 [s EXCEPT !.name_length = nl, !.data_length = dl,
                           !.dst = Append(s.dst,
                               Read(Span(s.storage, 1, nl - 1),
                                    Span(s.storage, kSSS, dl), <<>>))])

FastaGrow(s) ==
    IF s.data_length = kMSS
    THEN [s EXCEPT !.storage = Resize(s.storage, kSSS + kLSS)]
    ELSE s

FastaStore(s, c) ==
    IF s.line_number = 0
    THEN IF s.name_length < kSSS /\ ~(s.name_length = 0 /\ isspace(c))
         THEN [Write(s, s.name_length, c) EXCEPT !.name_length = s.name_length + 1]
         ELSE s
    ELSE FastaGrow([Write(s, kSSS + s.data_length, c)
                       EXCEPT !.data_length = s.data_length + 1])

FastaEndOfInput(s, i) == s.is_end /\ i = s.read_bytes - 1

FastaByte(s, c, i) ==
    LET s1 == IF c = NL
              THEN [s EXCEPT !.line_number = s.line_number + 1,
                             !.is_valid = s.is_valid \/ FastaEndOfInput(s, i)]
              ELSE IF c = ">" /\ s.line_number # 0
              THEN [s EXCEPT !.is_valid = TRUE, !.line_number = 0]
              ELSE FastaStore(s, c)
        s2 == [s1 EXCEPT !.current_bytes = s1.current_bytes + 1]
    IN  IF s2.ub THEN s2
        ELSE IF s2.is_valid THEN FastaEmit(s2)
        ELSE s2

(***************************************************************************)
(* FastqParser::parse_objects, the body of the byte loop.                  *)
(***************************************************************************)
FastqResetLengths(s) ==
    [s EXCEPT !.num_objects = s.num_objects + 1,
              !.current_bytes = 0,
              !.name_length = 0,
              !.data_length = 0,
              !.quality_length = 0,
              !.is_valid = FALSE]

(* A validation that does not compare the data and quality lengths.       *)
FastqValidAnyLengths(s, nl, dl, ql) ==
    ~(nl = 0 \/ At(s.storage, 0) # "@" \/ dl = 0 \/ ql = 0)

FastqValid(s, nl, dl, ql) ==
    ~(nl = 0 \/ At(s.storage, 0) # "@" \/ dl = 0 \/ ql = 0 \/ dl # ql)

FastqEmit(s) ==
    LET nl == TrimLength(s.storage, 0, s.name_length)
        dl == TrimLength(s.storage, kSSS, s.data_length)
        ql == TrimLength(s.storage, s.quality, s.quality_length)
        t  == [s EXCEPT !.name_length = nl, !.data_length = dl,
                        !.quality_length = ql]
    IN  IF ~FastqValid(s, nl, dl, ql)
        THEN [t EXCEPT !.fatal = "InvalidFormat"]
        ELSE FastqResetLengths(
                 [t EXCEPT !.dst = Append(s.dst,
                               Read(Span(s.storage, 1, nl - 1),
                                    Span(s.storage, kSSS, dl),
                                    Span(s.storage, s.quality, ql)))])

FastqGrow(s) ==
    IF s.data_length = kMSS
    THEN [s EXCEPT !.storage = Resize(s.storage, kSSS + 2 * kLSS),
                   !.quality = kSSS + kLSS]
    ELSE s

FastqStore(s, c) ==
    CASE s.line_number = 0 ->
           IF s.name_length < kSSS /\ ~(s.name_length = 0 /\ isspace(c))
           THEN [Write(s, s.name_length, c) EXCEPT !.name_length = s.name_length + 1]
           ELSE s
      [] s.line_number = 1 ->
           FastqGrow([Write(s, kSSS + s.data_length, c)
                         EXCEPT !.data_length = s.data_length + 1])
      [] s.line_number = 2 -> s
      [] s.line_number = 3 ->
           [Write(s, s.quality + s.quality_length, c)
               EXCEPT !.quality_length = s.quality_length + 1]

FastqRecordEnd(s, line_number, i) ==
    line_number = 0 \/ (s.is_end /\ i = s.read_bytes - 1)

FastqByte(s, c, i) ==
    LET ln == (s.line_number + 1) % 4
        s1 == IF c = NL
              THEN [s EXCEPT !.line_number = ln,
                             !.is_valid = s.is_valid \/ FastqRecordEnd(s, ln, i)]
              ELSE FastqStore(s, c)
        s2 == [s1 EXCEPT !.current_bytes = s1.current_bytes + 1]
    IN  IF s2.ub THEN s2
        ELSE IF s2.is_valid THEN FastqEmit(s2)
        ELSE s2

(***************************************************************************)
(* C strings and the C library's number parsers, as far as the bytes of    *)
(* the model's streams go: leading white space, a sign, decimal digits     *)
(* and, for atof, a fraction.                                              *)
(***************************************************************************)
RECURSIVE CStrEnd(_, _)
CStrEnd(st, i) ==
    IF ~InBounds(st, i) \/ At(st, i) = NUL THEN i ELSE CStrEnd(st, i + 1)

(* The NUL-terminated string that starts at &line[begin].                 *)
CStr(st, begin) == Span(st, begin, CStrEnd(st, begin) - begin)

RECURSIVE SkipSpace(_)
SkipSpace(str) ==
    IF str # <<>> /\ isspace(Head(str)) THEN SkipSpace(Tail(str)) ELSE str

RECURSIVE Digits(_, _)
Digits(str, acc) ==
    IF str # <<>> /\ isdigit(Head(str))
    THEN Digits(Tail(str), 10 * acc + DigitVal(Head(str)))
    ELSE acc

RECURSIVE DigitRun(_)
DigitRun(str) ==
    IF str # <<>> /\ isdigit(Head(str))
    THEN <<Head(str)>> \o DigitRun(Tail(str))
    ELSE <<>>

Signed(str) ==
    LET t == SkipSpace(str)
    IN  IF t # <<>> /\ Head(t) \in {"-", "+"}
        THEN [neg |-> Head(t) = "-", rest |-> Tail(t)]
        ELSE [neg |-> FALSE, rest |-> t]

(* uint32_t x = atoi(str).  A negative result converts to 2^32 - v; the   *)
(* model keeps it as -v, which stands for that value one to one.          *)
atoi(str) ==
    LET g == Signed(str)
        v == Digits(g.rest, 0)
    IN  IF g.neg THEN 0 - v ELSE v

(* double x = atof(str): sign, integer part, digits of the fraction.      *)
atof(str) ==
    LET g == Signed(str)
        ip == DigitRun(g.rest)
        after == SubSeq(g.rest, Len(ip) + 1, Len(g.rest))
        fr == IF after # <<>> /\ Head(after) = "." THEN DigitRun(Tail(after)) ELSE <<>>
    IN  [neg |-> g.neg /\ (Digits(ip, 0) # 0 \/ Digits(fr, 0) # 0),
         int |-> Digits(ip, 0), frac |-> fr]

(***************************************************************************)
(* The line formats: the end of a line (bioparser.hpp:477-558, 627-723).   *)
(***************************************************************************)
(* line[line_length] = 0; then the trailing white space is overwritten.   *)
RECURSIVE TrimLine(_)
TrimLine(s) ==
    IF ~s.ub /\ s.line_length > 0 /\ isspace(At(s.storage, s.line_length - 1))
    THEN TrimLine([Write(s, s.line_length - 1, NUL)
                      EXCEPT !.line_length = s.line_length - 1])
    ELSE s

TerminateLine(s) == TrimLine(Write(s, s.line_length, NUL))

(* for (j = begin; j < line_length; ++j) if (line[j] == delim) { end = j; *)
(* break; }  with end starting at begin.                                   *)
RECURSIVE FindDelimiter(_, _, _, _, _)
FindDelimiter(st, begin, j, line_length, delim) ==
    IF j >= line_length THEN begin
    ELSE IF At(st, j) = delim THEN j
    ELSE FindDelimiter(st, begin, j + 1, line_length, delim)

FieldEnd(s, begin, delim) ==
    LET end == FindDelimiter(s.storage, begin, begin, s.line_length, delim)
    IN  IF end = begin THEN s.line_length ELSE end

(* switch (values_length) of MhapParser: case 2 is atof, case 11 and      *)
(* default are b_length.                                                   *)
MhapValue(s, begin) ==
    LET k == Min(s.values_length, kMhapObjectLength - 1)
        v == IF k = 2 THEN atof(CStr(s.storage, begin))
             ELSE atoi(CStr(s.storage, begin))
    IN  [s EXCEPT !.values[k + 1] = v]

(* switch (values_length) of PafParser: cases 0 and 5 keep a pointer into *)
(* the line and a length, case 4 the byte.                                 *)
PafValueSpanToLineEnd(s, begin, end) ==
    LET k == Min(s.values_length, kPafObjectLength - 1)
        v == IF k \in {0, 5} THEN [off |-> begin, len |-> s.line_length - begin]
             ELSE IF k = 4 THEN At(s.storage, begin)
             ELSE atoi(CStr(s.storage, begin))
    IN  [s EXCEPT !.values[k + 1] = v]

PafValue(s, begin, end) ==
    LET k == Min(s.values_length, kPafObjectLength - 1)
        v == IF k \in {0, 5} THEN [off |-> begin, len |-> end - begin]
             ELSE IF k = 4 THEN At(s.storage, begin)
             ELSE atoi(CStr(s.storage, begin))
    IN  [s EXCEPT !.values[k + 1] = v]

RECURSIVE MhapSplit(_, _)
MhapSplit(s, begin) ==
    LET end == FieldEnd(s, begin, " ")
        s1 == Write(s, end, NUL)
        s2 == MhapValue(s1, begin)
        s3 == [s2 EXCEPT !.values_length = s2.values_length + 1]
    IN  IF s1.ub THEN s1
        ELSE IF end = s3.line_length \/ s3.values_length = kMhapObjectLength THEN s3
        ELSE MhapSplit(s3, end + 1)

RECURSIVE PafSplit(_, _)
PafSplit(s, begin) ==
    LET end == FieldEnd(s, begin, "\t")
        s1 == Write(s, end, NUL)
        s2 == PafValue(s1, begin, end)
        s3 == [s2 EXCEPT !.values_length = s2.values_length + 1]
    IN  IF s1.ub THEN s1
        ELSE IF end = s3.line_length \/ s3.values_length = kPafObjectLength THEN s3
        ELSE PafSplit(s3, end + 1)

LineResetLengths(s) ==
    [s EXCEPT !.num_objects = s.num_objects + 1,
              !.current_bytes = 0,
              !.line_length = 0,
              !.values_length = 0]

(* new T(a_id, b_id, error, minmers, a_rc, a_begin, a_end, a_length,      *)
(* b_rc, b_begin, b_end, b_length): the values in field order.            *)
MhapOverlap(s) == s.values

MhapEmit(s) ==
    IF s.values_length # kMhapObjectLength
    THEN [s EXCEPT !.fatal = "InvalidFormat"]
    ELSE LineResetLengths([s EXCEPT !.dst = Append(s.dst, MhapOverlap(s))])

MhapLine(s) ==
    LET s1 == TerminateLine(s)
        s2 == IF s1.ub THEN s1 ELSE MhapSplit(s1, 0)
    IN  IF s2.ub THEN s2 ELSE MhapEmit(s2)

MhapByte(s, c, i) ==
    LET s1 == [s EXCEPT !.current_bytes = s.current_bytes + 1]
    IN  IF c = NL THEN MhapLine(s1)
        ELSE [Write(s1, s1.line_length, c) EXCEPT !.line_length = s1.line_length + 1]

(* A name length that is not clamped to the small region.                 *)
PafNameLengthUnclamped(s, v) == TrimLength(s.storage, v.off, v.len)

(* while (len > 0 && isspace(name[len - 1])) --len; len = min(len, kSSS)  *)
PafNameLength(s, v) == Min(TrimLength(s.storage, v.off, v.len), kSSS)

(* new T(a_name, a_name_length, a_length, a_begin, a_end, orientation,    *)
(* b_name, b_name_length, b_length, b_begin, b_end, matching_bases,       *)
(* overlap_length, quality), the names copied as the tests' Overlap does. *)
PafOverlap(s, al, bl) ==
    [s.values EXCEPT ![1] = Span(s.storage, s.values[1].off, al),
                     ![6] = Span(s.storage, s.values[6].off, bl)]

PafEmit(s) ==
    LET al == PafNameLength(s, s.values[1])
        bl == PafNameLength(s, s.values[6])
        t  == [s EXCEPT !.values[1].len = al, !.values[6].len = bl]
    IN  IF al = 0 \/ bl = 0 \/ s.values_length # kPafObjectLength
        THEN [t EXCEPT !.fatal = "InvalidFormat"]
        ELSE LineResetLengths([t EXCEPT !.dst = Append(s.dst, PafOverlap(s, al, bl))])

PafLine(s) ==
    LET s1 == TerminateLine(s)
        s2 == IF s1.ub THEN s1 ELSE PafSplit(s1, 0)
    IN  IF s2.ub THEN s2 ELSE PafEmit(s2)

PafByte(s, c, i) ==
    LET s1 == [s EXCEPT !.current_bytes = s.current_bytes + 1]
    IN  IF c = NL THEN PafLine(s1)
        ELSE [Write(s1, s1.line_length, c) EXCEPT !.line_length = s1.line_length + 1]

(***************************************************************************)
(* The parser object with its running call, as one record m:               *)
(*   pos, eof      the FILE behind input_file_: offset and EOF indicator   *)
(*   buffer        the bytes the last fread put into buffer_               *)
(*   storage, dst  storage_ and the caller's destination vector            *)
(*   pc            "idle" (no call running), "loop" (at the while test),   *)
(*                 "scan" (before the for loop), "return" (after break),   *)
(*                 "exit" (exit(1) was called), "ub"                       *)
(*   ret           what the last call returned                             *)
(* and the locals of parse_objects under their names.                      *)
(***************************************************************************)
Formats == {"fasta", "fastq", "mhap", "paf"}

(* The storage_size each constructor passes to Parser<T>::Parser.         *)
StorageSize(f) ==
    CASE f = "fasta" -> kSSS + kMSS
      [] f = "fastq" -> kSSS + 2 * kMSS
      [] f = "mhap"  -> kSSS
      [] f = "paf"   -> 3 * kSSS

NullSpan == [off |-> 0 - 1, len |-> 0]

(* The initial values of the parsed fields (bioparser.hpp:449-452 and     *)
(* 597-602).                                                               *)
InitialValues(f) ==
    IF f = "paf"
    THEN <<NullSpan, 0, 0, 0, NUL, NullSpan, 0, 0, 0, 0, 0, 0>>
    ELSE <<0, 0, atof(<<>>), 0, 0, 0, 0, 0, 0, 0, 0, 0>>

LocalNames ==
    {"is_end", "is_valid", "status", "current_bytes", "total_bytes",
     "num_objects", "last_object_id", "line_number", "name_length",
     "data_length", "quality", "quality_length", "line_length",
     "values_length", "values", "read_bytes", "max_bytes"}

(* The locals as parse_objects declares them (bioparser.hpp:195-209,      *)
(* 305-322, 433-452, 581-602).                                             *)
Locals(f, eof, max_bytes) ==
    [is_end |-> eof, is_valid |-> FALSE, status |-> FALSE,
     current_bytes |-> 0, total_bytes |-> 0, num_objects |-> 0,
     last_object_id |-> 0, line_number |-> 0, name_length |-> 0,
     data_length |-> 0, quality |-> kSSS + kMSS, quality_length |-> 0,
     line_length |-> 0, values_length |-> 0, values |-> InitialValues(f),
     read_bytes |-> 0, max_bytes |-> max_bytes]

MemberNames == {"pos", "eof", "buffer", "storage"}

(* Parser<T>::Parser: the file at offset 0, storage_ zero-filled.         *)
NewParser(f) ==
    [pos |-> 0, eof |-> FALSE, buffer |-> <<>>, storage |-> Zeros(StorageSize(f))]

Machine(members, locals, d, control) ==
    [k \in MemberNames \cup LocalNames \cup {"dst", "pc", "ret", "fatal", "ub"} |->
        IF k \in MemberNames THEN members[k]
        ELSE IF k \in LocalNames THEN locals[k]
        ELSE IF k = "dst" THEN d
        ELSE control[k]]

(* A call whose line_number and data_length are not locals: they keep    *)
(* the values the call before left.                                       *)
EnterCallKeepingState(f, m, max_bytes) ==
    Machine(m, [Locals(f, m.eof, max_bytes) EXCEPT !.line_number = m.line_number,
                                                   !.data_length = m.data_length],
            m.dst, [pc |-> "loop", ret |-> m.ret, fatal |-> "none", ub |-> FALSE])

(* A call that does not look at the EOF indicator when it starts.         *)
EnterCallUnseenEof(f, m, max_bytes) ==
    Machine(m, Locals(f, FALSE, max_bytes), m.dst,
            [pc |-> "loop", ret |-> m.ret, fatal |-> "none", ub |-> FALSE])

(* The start of a call: bool is_end = feof(input_file); ...               *)
EnterCall(f, m, max_bytes) ==
    Machine(m, Locals(f, m.eof, max_bytes), m.dst,
            [pc |-> "loop", ret |-> m.ret, fatal |-> "none", ub |-> FALSE])

(* fread(buffer_.data(), 1, buffer_.size(), input_file): the bytes read.  *)
FreadCount(stream, pos) == Min(kBufferSize, Len(stream) - pos)

(* feof after that fread: the indicator is set by a read that meets the   *)
(* end of the file, that is one that returns fewer bytes than asked.      *)
FreadEof(stream, pos) == Len(stream) - pos < kBufferSize

(* A budget check made before the refill is counted.                      *)
BudgetExceededBeforeCount(m) ==
    m.max_bytes # 0 /\ m.total_bytes - m.read_bytes > m.max_bytes

(* A budget check without the test for max_bytes == 0.                    *)
BudgetExceededAtZero(m) == m.total_bytes > m.max_bytes

(* A budget check that already fires when the bytes read reach max_bytes. *)
BudgetReached(m) == m.max_bytes # 0 /\ m.total_bytes >= m.max_bytes

(* max_bytes != 0 && total_bytes > max_bytes                              *)
BudgetExceeded(m) == m.max_bytes # 0 /\ m.total_bytes > m.max_bytes

(* No zero-record test: a call over its budget always rewinds and returns *)
(* true.                                                                   *)
NoObjectYetIgnored(m) == FALSE

(* A zero-record test that counts the records of earlier calls too.       *)
NoObjectInDst(m) == m.dst = <<>>

(* last_object_id == num_objects                                          *)
NoObjectYet(m) == m.last_object_id = m.num_objects

(* A rewind that forgets the bytes of the record in progress.             *)
RewindDistanceOfReadOnly(m) == m.read_bytes

(* A rewind that forgets the read just made.                              *)
RewindDistanceOfRecordOnly(m) == m.current_bytes

(* fseek(input_file, -(current_bytes + read_bytes), SEEK_CUR)             *)
RewindDistance(m) == m.current_bytes + m.read_bytes

(* fseek: a seek before the start of the file fails and changes nothing;  *)
(* a successful seek clears the EOF indicator.                             *)
Fseek(m, target) ==
    IF target < 0 THEN m ELSE [m EXCEPT !.pos = target, !.eof = FALSE]

FreadStep(stream, m) ==
    LET n  == FreadCount(stream, m.pos)
        m1 == [m EXCEPT !.buffer = SubSeq(stream, m.pos + 1, m.pos + n),
                        !.pos = m.pos + n,
                        !.eof = FreadEof(stream, m.pos),
                        !.read_bytes = n,
                        !.is_end = FreadEof(stream, m.pos),
                        !.total_bytes = m.total_bytes + n]
    IN  IF BudgetExceeded(m1)
        THEN IF NoObjectYet(m1)
             THEN [m1 EXCEPT !.fatal = "ChunkTooSmall", !.pc = "exit"]
             ELSE [Fseek(m1, m1.pos - RewindDistance(m1))
                      EXCEPT !.status = TRUE, !.pc = "return"]
        ELSE [m1 EXCEPT !.pc = "scan"]

Byte(f, s, c, i) ==
    CASE f = "fasta" -> FastaByte(s, c, i)
      [] f = "fastq" -> FastqByte(s, c, i)
      [] f = "mhap"  -> MhapByte(s, c, i)
      [] f = "paf"   -> PafByte(s, c, i)

(* for (uint32_t i = 0; i < read_bytes; ++i) { ... }; exit(1) and a write *)
(* outside storage_ end it.                                                *)
RECURSIVE ScanFrom(_, _, _)
ScanFrom(f, s, i) ==
    IF i >= s.read_bytes \/ s.fatal # "none" \/ s.ub THEN s
    ELSE ScanFrom(f, Byte(f, s, s.buffer[i + 1], i), i + 1)

ScanStep(f, m) ==
    LET s == ScanFrom(f, m, 0)
    IN  [s EXCEPT !.pc = IF s.ub THEN "ub"
                         ELSE IF s.fatal # "none" THEN "exit"
                         ELSE "loop"]

(* return status;                                                         *)
ReturnStep(m) == [m EXCEPT !.ret = m.status, !.pc = "idle"]

(* Parser<T>::reset: fseek(input_file_.get(), 0, SEEK_SET)                *)
ResetStep(m) == Fseek(m, 0)

(* One whole parse_objects call from an idle parser.                      *)
RECURSIVE RunCall(_, _, _)
RunCall(f, stream, m) ==
    CASE m.pc = "loop" ->
           IF m.is_end THEN ReturnStep(m) ELSE RunCall(f, stream, FreadStep(stream, m))
      [] m.pc = "scan" -> RunCall(f, stream, ScanStep(f, m))
      [] m.pc = "return" -> ReturnStep(m)
      [] OTHER -> m

ParseObjects(f, stream, m, max_bytes) == RunCall(f, stream, EnterCall(f, m, max_bytes))

Idle(f) ==
    Machine(NewParser(f), Locals(f, FALSE, 0), <<>>,
            [pc |-> "idle", ret |-> FALSE, fatal |-> "none", ub |-> FALSE])

(* parser->parse_objects(dst, 0) on a newly created parser.               *)
ParseWhole(f, stream) == ParseObjects(f, stream, Idle(f), 0)

(***************************************************************************)
(* Input streams: sequences of lines, every line followed by a newline     *)
(* except, possibly, the last.                                             *)
(***************************************************************************)
RECURSIVE Join(_)
Join(ls) == IF ls = <<>> THEN <<>> ELSE Head(ls) \o <<NL>> \o Join(Tail(ls))

Terminated(L, n) == { Join(ls) : ls \in UNION { [1..k -> L] : k \in 0..n } }

Unterminated(S) == { SubSeq(x, 1, Len(x) - 1) : x \in S \ {<<>>} }

(* Lines of the header/sequence machine's streams.                        *)
FastaShapes ==
    { <<>>, <<">">>, <<"A">>, <<">", "B">>, <<"A", "C">>, <<"A", ">">> }

(* Lines of the header/sequence/quality machine's streams, by the place   *)
(* of the line in its group of four.                                       *)
FastqShapes(k) ==
    CASE k % 4 = 1 -> { <<"@">>, <<"@", "B">>, <<>> }
      [] k % 4 = 2 -> { <<"A">>, <<"A", "C">>, <<"A", " ">> }
      [] k % 4 = 3 -> { <<"+">> }
      [] k % 4 = 0 -> { <<"A">>, <<"A", "C">>, <<>> }

FastqLineSeqs(n) ==
    UNION { { ls \in [1..k -> UNION { FastqShapes(j) : j \in 1..4 }] :
                \A j \in 1..k : ls[j] \in FastqShapes(j) } : k \in 0..n }

RECURSIVE Repeat(_, _, _)
Repeat(field, n, delim) ==
    IF n = 0 THEN <<>>
    ELSE IF n = 1 THEN field
    ELSE field \o <<delim>> \o Repeat(field, n - 1, delim)

(* Lines of the line machines' streams: n one-byte fields and a first     *)
(* part in front of them.                                                  *)
FieldLine(first, n, delim) == first \o Repeat(<<"1">>, n, delim)

MhapShapes ==
    { FieldLine(<<>>, 12, " "), FieldLine(<<"2", " ">>, 11, " "),
      FieldLine(<<>>, 11, " "), FieldLine(<<>>, 13, " "),
      FieldLine(<<"1", " ", " ">>, 11, " "), FieldLine(<<>>, 12, " ") \o <<" ">>,
      FieldLine(<<>>, 12, "\t"), <<>> }

PafShapes ==
    { FieldLine(<<"a", "\t", "1", "\t", "1", "\t", "1", "\t", "+", "\t", "b", "\t">>, 6, "\t"),
      FieldLine(<<"c", "\t", "1", "\t", "1", "\t", "1", "\t", "-", "\t", "d", " ", "\t">>, 6, "\t"),
      FieldLine(<<"a", "\t", "1", "\t", "1", "\t", "1", "\t", "+", "\t", "b", "\t">>, 5, "\t"),
      FieldLine(<<"a", "\t", "1", "\t", "1", "\t", "1", "\t", "+", "\t", "b", "\t">>, 7, "\t"),
      FieldLine(<<"a", "\t", "1", "\t", "1", "\t", "1", "\t", "+", "\t", " ", "\t">>, 6, "\t"),
      FieldLine(<<"a", "\t", "\t">>, 10, "\t"),
      FieldLine(<<>>, 12, " "), <<>> }

WithUnterminated(S) == S \cup Unterminated(S)

Streams(f) ==
    CASE f = "fasta" -> WithUnterminated(Terminated(FastaShapes, MaxLines))
      [] f = "fastq" -> WithUnterminated({ Join(ls) : ls \in FastqLineSeqs(MaxFastqLines) })
      [] f = "mhap"  -> WithUnterminated(Terminated(MhapShapes, MaxRecordLines))
      [] f = "paf"   -> WithUnterminated(Terminated(PafShapes, MaxRecordLines))

(* The max_bytes the caller passes: 0 (no budget), less than one buffer,  *)
(* and budgets of a few buffers.                                           *)
ChunkSizes(f) ==
    CASE f = "fasta" -> {0, kBufferSize - 1, kBufferSize, 2 * kBufferSize + 1}
      [] f = "fastq" -> {0, kBufferSize - 1, 2 * kBufferSize + 1, 3 * kBufferSize}
      [] OTHER -> {0, kBufferSize, 6 * kBufferSize + 1, 7 * kBufferSize}

MaxResets == 1

(***************************************************************************)
(* State.                                                                  *)
(*   fmt, stream  the parser class created and the bytes of its file       *)
(*   parser       the parser object and its running call (the record m)    *)
(*   used         the max_bytes of the calls since construction or reset   *)
(*   start        offset and destination size when the last call began     *)
(*   base         the destination size at the last reset                   *)
(*   first        the records of the first parse that ran to the end       *)
(*   resets       the number of reset() calls                              *)
(***************************************************************************)
VARIABLES fmt, stream, parser, used, start, base, first, resets, entry

vars == <<fmt, stream, parser, used, start, base, first, resets, entry>>

(* entry: for a call of the shared-ownership overload, the parser and the *)
(* caller's dst as the call found them and its max_bytes; the parser's    *)
(* dst is then the overload's tmp until the call returns.                 *)
NoEntry(f) == [called |-> FALSE, m |-> Idle(f), max_bytes |-> 0]

InitFor(F) ==
    /\ fmt \in F
    /\ stream \in Streams(fmt)
    /\ parser = Idle(fmt)
    /\ used = {}
    /\ start = [pos |-> 0, size |-> 0]
    /\ base = 0
    /\ first = [set |-> FALSE, dst |-> <<>>]
    /\ resets = 0
    /\ entry = NoEntry(fmt)

Init == InitFor(Formats)

(* The caller calls parser->parse_objects(dst, max_bytes): as in the      *)
(* tests' while (parser->parse_objects(reads, size_in_bytes)) {}, with    *)
(* one max_bytes until a call returns false, and with any after that.     *)
Call(max_bytes) ==
    /\ parser.pc = "idle"
    /\ used = {} \/ max_bytes \in used \/ ~parser.ret
    /\ parser' = EnterCall(fmt, parser, max_bytes)
    /\ used' = used \cup {max_bytes}
    /\ start' = [pos |-> parser.pos, size |-> Len(parser.dst)]
    /\ UNCHANGED <<fmt, stream, base, first, resets, entry>>

(* while (!is_end) { fread; feof; the budget check                        *)
Fread ==
    /\ parser.pc = "loop"
    /\ ~parser.is_end
    /\ parser' = FreadStep(stream, parser)
    /\ UNCHANGED <<fmt, stream, used, start, base, first, resets, entry>>

(* the for loop over the bytes read                                       *)
Scan ==
    /\ parser.pc = "scan"
    /\ parser' = ScanStep(fmt, parser)
    /\ UNCHANGED <<fmt, stream, used, start, base, first, resets, entry>>

(* return status, at the end of the while loop or after its break         *)
Return ==
    /\ parser.pc = "return" \/ (parser.pc = "loop" /\ parser.is_end)
    /\ parser' = ReturnStep(parser)
    /\ first' = IF ~first.set /\ ~parser.status /\ resets = 0
                THEN [set |-> TRUE, dst |-> parser.dst]
                ELSE first
    /\ UNCHANGED <<fmt, stream, used, start, base, resets, entry>>

(* The caller calls parser->reset() between two calls.                    *)
Reset ==
    /\ parser.pc = "idle"
    /\ resets < MaxResets
    /\ parser' = ResetStep(parser)
    /\ used' = {}
    /\ base' = Len(parser.dst)
    /\ resets' = resets + 1
    /\ entry' = [entry EXCEPT !.called = FALSE]
    /\ UNCHANGED <<fmt, stream, start, first>>

Next ==
    \/ \E max_bytes \in ChunkSizes(fmt) : Call(max_bytes)
    \/ Fread
    \/ Scan
    \/ Return
    \/ Reset

Spec == Init /\ [][Next]_vars

(* One parser class at a time.                                            *)
SpecFasta == InitFor({"fasta"}) /\ [][Next]_vars

SpecFastq == InitFor({"fastq"}) /\ [][Next]_vars

SpecLines == InitFor({"mhap", "paf"}) /\ [][Next]_vars

SpecRecords == InitFor({"fastq", "mhap", "paf"}) /\ [][Next]_vars

(***************************************************************************)
(* What the claims speak of.                                               *)
(***************************************************************************)
(* The records appended since construction or the last reset.             *)
Appended == SubSeq(parser.dst, base + 1, Len(parser.dst))

(* The records the last call appended.                                    *)
AppendedByCall == SubSeq(parser.dst, start.size + 1, Len(parser.dst))

(* The caller's loop while (parse_objects(dst, max_bytes)) {} has ended   *)
(* with a call that returned false.                                        *)
LoopEnded == parser.pc = "idle" /\ used # {} /\ ~parser.ret

(* All calls since construction or the last reset passed one non-zero     *)
(* max_bytes.                                                              *)
Chunked == \E b \in used : b # 0 /\ used = {b}

(* The lines of a stream that ends with a newline.                        *)
RECURSIVE SplitLines(_, _)
SplitLines(x, line) ==
    IF x = <<>> THEN <<>>
    ELSE IF Head(x) = NL THEN <<line>> \o SplitLines(Tail(x), <<>>)
    ELSE SplitLines(Tail(x), Append(line, Head(x)))

NewlineTerminated(x) == x # <<>> /\ x[Len(x)] = NL

Plain(c) == ~isspace(c) /\ c \notin {">", "@", "+"}

PlainLine(l) == l # <<>> /\ \A k \in 1..Len(l) : Plain(l[k])

FastaHeader(l) == l # <<>> /\ l[1] = ">" /\ \A k \in 2..Len(l) : Plain(l[k])

(* A well-formed header/sequence stream: every line newline-terminated,   *)
(* a header line first, one or more non-empty data lines after each one.  *)
WellFormedFasta(x) ==
    /\ NewlineTerminated(x)
    /\ LET ls == SplitLines(x, <<>>)
       IN  /\ FastaHeader(ls[1])
           /\ PlainLine(ls[Len(ls)])
           /\ \A k \in 1..Len(ls) :
                 /\ FastaHeader(ls[k]) \/ PlainLine(ls[k])
                 /\ FastaHeader(ls[k]) /\ k < Len(ls) => PlainLine(ls[k + 1])

(* One record per header line: the name after the marker, the data lines  *)
(* up to the next header line joined.                                      *)
RECURSIVE FastaRecords(_, _)
FastaRecords(ls, acc) ==
    IF ls = <<>> THEN acc
    ELSE IF FastaHeader(Head(ls))
    THEN FastaRecords(Tail(ls), Append(acc, Read(Tail(Head(ls)), <<>>, <<>>)))
    ELSE FastaRecords(Tail(ls),
             [acc EXCEPT ![Len(acc)].data = acc[Len(acc)].data \o Head(ls)])

ExpectedFasta(x) == FastaRecords(SplitLines(x, <<>>), <<>>)

(* C1: header/sequence format: repeated calls with one non-zero max_bytes, *)
(* none ending in ChunkTooSmall, until false is returned, append the same  *)
(* records in the same order as one unbounded call on a new parser.        *)
C1_ChunkedEqualsWholeFasta ==
    fmt = "fasta" /\ resets = 0 /\ Chunked /\ LoopEnded
        => parser.dst = ParseWhole(fmt, stream).dst

(* C7: header/sequence format: one unbounded call on a well-formed stream  *)
(* appends one record per header line, the last one included, with the     *)
(* header's name and the joined data lines.                                *)
C7_WholeFastaRecords ==
    fmt = "fasta" /\ resets = 0 /\ used = {0} /\ LoopEnded /\ WellFormedFasta(stream)
        => parser.dst = ExpectedFasta(stream)

(* C2: header/sequence/quality, numeric-record and tab-record formats:     *)
(* repeated calls with one non-zero max_bytes, none ending in              *)
(* ChunkTooSmall, until false is returned, append the same records in the  *)
(* same order as one unbounded call on a new parser.                       *)
C2_ChunkedEqualsWhole ==
    fmt # "fasta" /\ resets = 0 /\ Chunked /\ LoopEnded
        => parser.dst = ParseWhole(fmt, stream).dst

(* A chunked parse that took several calls, the last one and an earlier   *)
(* one both appending records.                                             *)
C2_Witness ==
    /\ fmt # "fasta" /\ resets = 0 /\ Chunked /\ LoopEnded
    /\ start.size > 0
    /\ Len(parser.dst) > start.size

(* The offsets just after each newline of x, in stream order.              *)
AfterNewlines(x) ==
    LET Is(i) == x[i] = NL
    IN  SelectSeq([i \in 1..Len(x) |-> i], Is)

RECURSIVE MarkersFrom(_, _, _)
(* The offsets of the '>' bytes of x that begin a record after the first: *)
(* each one follows at least one newline of the record before it.         *)
MarkersFrom(x, i, lines) ==
    IF i > Len(x) THEN <<>>
    ELSE IF x[i] = NL THEN MarkersFrom(x, i + 1, lines + 1)
    ELSE IF x[i] = ">" /\ lines > 0 THEN <<i - 1>> \o MarkersFrom(x, i + 1, 0)
    ELSE MarkersFrom(x, i + 1, lines)

(* The offset of the first byte of record n + 1 of x, for n >= 1; -1 when *)
(* x has no such record start.                                            *)
RecordBoundary(f, x, n) ==
    LET b == CASE f = "fasta" -> MarkersFrom(x, 1, 0)
               [] f = "fastq" -> AfterNewlines(x)
               [] OTHER -> AfterNewlines(x)
        k == IF f = "fastq" THEN 4 * n ELSE n
    IN  IF k \in 1..Len(b) THEN b[k] ELSE -1

(* A call has returned true.                                              *)
ReturnedTrue == parser.pc = "idle" /\ used # {} /\ parser.ret

(* C3: whenever parse_objects returns true, the stream position is the    *)
(* offset of the first byte of the first record not yet appended: the '>' *)
(* marker of the record in progress for the header/sequence format, the   *)
(* byte after the newline that ended the last appended record for the     *)
(* other formats; the next call starts at a record boundary.              *)
C3_RewindToRecordBoundary ==
    ReturnedTrue => /\ Appended # <<>>
                    /\ parser.pos = RecordBoundary(fmt, stream, Len(Appended))

(* A call returned true after it had read part of the next record: the    *)
(* rewind took back both the last read and the bytes of that record.      *)
C3_Witness ==
    /\ ReturnedTrue
    /\ fmt = "fastq"
    /\ parser.current_bytes > 0
    /\ parser.read_bytes > 0

(* C4: for every format and every max_bytes # 0, once the bytes read in    *)
(* the current call exceed max_bytes while the call has appended no        *)
(* record, the call has ended in the fatal ChunkTooSmall error: it has not *)
(* returned and the stream stays where the reads left it, not rewound.     *)
(* Records appended by earlier calls do not count.                         *)
C4_ChunkTooSmall ==
    /\ used # {}
    /\ parser.max_bytes # 0
    /\ parser.total_bytes > parser.max_bytes
    /\ Len(parser.dst) = start.size
    => /\ parser.pc = "exit"
       /\ parser.fatal = "ChunkTooSmall"
       /\ parser.pos = start.pos + parser.total_bytes

(* ChunkTooSmall in a call that follows calls that appended records.      *)
C4_Witness ==
    /\ parser.pc = "exit"
    /\ parser.fatal = "ChunkTooSmall"
    /\ start.size > 0
    /\ Len(parser.dst) = start.size

(* The number of bytes of x after which record k is complete for the      *)
(* parser: the newline that ends its line (its fourth line for the        *)
(* header/sequence/quality format), or, for the header/sequence format,   *)
(* the marker of the record after it.                                     *)
Completions(f, x) ==
    LET nl == AfterNewlines(x)
        mk == MarkersFrom(x, 1, 0)
    IN  CASE f = "fasta" -> [k \in 1..Len(mk) |-> mk[k] + 1]
          [] f = "fastq" -> [k \in 1..(Len(nl) \div 4) |-> nl[4 * k]]
          [] OTHER -> nl

(* The byte length of record k of x: for the header/sequence format the   *)
(* marker that completes it belongs to the next record.                   *)
RecordExtent(f, x, k) ==
    LET c == Completions(f, x)
        from == IF k = 1 THEN 0 ELSE RecordBoundary(f, x, k - 1)
    IN  IF k \in 1..Len(c)
        THEN (IF f = "fasta" THEN c[k] - 1 ELSE c[k]) - from
        ELSE Len(x) - from

(* The current call has ended: it returned, or a fatal error ended it.    *)
CallEnded == used # {} /\ parser.pc \in {"idle", "exit"}

(* The records appended before the current call since the last reset.     *)
Before == start.size - base

(* The current call started at the start of the stream or where the       *)
(* record after the ones appended so far begins.                          *)
StartedAtBoundary ==
    IF Before = 0 THEN start.pos = 0
    ELSE start.pos = RecordBoundary(fmt, stream, Before)

(* The bytes the call scans before a read takes it over its budget: whole *)
(* buffers of kBufferSize bytes.                                          *)
ScannedWithinBudget == kBufferSize * (parser.max_bytes \div kBufferSize)

(* The records that complete within the first n bytes of the call.        *)
CompletedWithin(n) ==
    LET c == Completions(fmt, stream)
    IN  { k \in (Before + 1)..Len(c) : c[k] <= start.pos + n }

(* What C5 promises of a call that has ended: no ChunkTooSmall; a return  *)
(* of true with the records complete in the scanned bytes, at least one,  *)
(* the stream left at the start of the next record.                       *)
FitsOutcome ==
    \/ parser.pc = "exit" /\ parser.fatal = "InvalidFormat"
    \/ /\ parser.pc = "idle"
       /\ parser.ret
       /\ Len(parser.dst) > start.size
       /\ Len(parser.dst) - start.size
              = Cardinality(CompletedWithin(ScannedWithinBudget))
       /\ parser.pos = RecordBoundary(fmt, stream, Len(Appended))
       /\ AppendedByCall = SubSeq(ParseWhole(fmt, stream).dst,
                                  Before + 1, Len(Appended))

(* C5 as stated: a call that starts at a record boundary with a budget of *)
(* at least the byte length of the first unparsed record, on a remaining  *)
(* stream longer than the budget, returns true with at least one record   *)
(* and never ends in ChunkTooSmall.                                        *)
C5_BudgetFitsRecord ==
    /\ CallEnded
    /\ parser.max_bytes # 0
    /\ StartedAtBoundary
    /\ RecordExtent(fmt, stream, Before + 1) <= parser.max_bytes
    /\ Len(stream) - start.pos > parser.max_bytes
    => FitsOutcome

(* C5, amended: the budget is compared with the bytes read, in whole      *)
(* buffers. A call that starts at a record boundary, on a remaining       *)
(* stream longer than max_bytes # 0, whose first unparsed record is       *)
(* complete within the buffers read before the count passes max_bytes,    *)
(* never ends in ChunkTooSmall: it returns true having appended exactly   *)
(* the records complete within those buffers, at least one, and leaves    *)
(* the stream at the start of the next record (or ends in InvalidFormat   *)
(* at a malformed record).                                                 *)
C5_BudgetFitsRecordInBuffers ==
    /\ CallEnded
    /\ parser.max_bytes # 0
    /\ StartedAtBoundary
    /\ CompletedWithin(ScannedWithinBudget) # {}
    /\ Len(stream) - start.pos > parser.max_bytes
    => FitsOutcome

(* A later call of a chunked loop returned true with a record that was    *)
(* complete within its buffers.                                            *)
C5_Witness ==
    /\ CallEnded
    /\ parser.max_bytes # 0
    /\ StartedAtBoundary
    /\ start.pos > 0
    /\ CompletedWithin(ScannedWithinBudget) # {}
    /\ Len(stream) - start.pos > parser.max_bytes
    /\ parser.pc = "idle"
    /\ parser.ret

(* C6: after reset(), a full reparse - one unbounded call, or calls with   *)
(* one non-zero max_bytes until false is returned - appends the record    *)
(* sequence that the first full parse of the stream appended.             *)
C6_ReparseAfterReset ==
    /\ resets = 1
    /\ LoopEnded
    /\ used = {0} \/ Chunked
    => Appended = IF first.set THEN first.dst
                  ELSE ParseWhole(fmt, stream).dst

RECURSIVE RTrim(_)
(* A line without its trailing whitespace.                                *)
RTrim(l) ==
    IF l # <<>> /\ isspace(l[Len(l)]) THEN RTrim(SubSeq(l, 1, Len(l) - 1)) ELSE l

RECURSIVE LTrim(_)
(* A line without its leading whitespace.                                 *)
LTrim(l) == IF l # <<>> /\ isspace(Head(l)) THEN LTrim(Tail(l)) ELSE l

(* The k-th group of four newline-terminated lines of x.                  *)
FastqGroup(x, k) == SubSeq(SplitLines(x, <<>>), 4 * k - 3, 4 * k)

(* The number of whole four-line groups of x.                             *)
FastqGroups(x) == Len(SplitLines(x, <<>>)) \div 4

(* Header, data and quality of a four-line group, trimmed.                *)
FastqFields(g) ==
    [header |-> RTrim(LTrim(g[1])), data |-> RTrim(g[2]), quality |-> RTrim(g[4])]

(* The structural rule of the header/sequence/quality format.             *)
FastqWellFormed(g) ==
    LET r == FastqFields(g)
    IN  /\ r.header # <<>> /\ r.header[1] = "@"
        /\ r.data # <<>>
        /\ r.quality # <<>>
        /\ Len(r.data) = Len(r.quality)

(* C8: header/sequence/quality format: every record appended comes from a *)
(* group with a non-empty header that begins with '@', non-empty data and  *)
(* non-empty quality of the same length (after trimming), and carries      *)
(* those bytes; every group whose end has been scanned has been appended,  *)
(* or, if it breaks the rule, has ended the call in InvalidFormat without  *)
(* being appended.                                                         *)
C8_FastqValidRecords ==
    fmt = "fastq" =>
        /\ \A j \in 1..Len(Appended) :
              LET g == FastqGroup(stream, j)
                  r == FastqFields(g)
              IN  /\ j <= FastqGroups(stream)
                  /\ FastqWellFormed(g)
                  /\ Appended[j] = Read(Tail(r.header), r.data, r.quality)
                  /\ Len(Appended[j].data) = Len(Appended[j].quality)
                  /\ Len(Appended[j].data) > 0
        /\ parser.fatal = "InvalidFormat" =>
              \/ Len(Appended) >= FastqGroups(stream)
              \/ ~FastqWellFormed(FastqGroup(stream, Len(Appended) + 1))
        /\ used # {} /\ parser.pc = "loop" =>
              \A k \in 1..FastqGroups(stream) :
                  Completions(fmt, stream)[k] <= start.pos + parser.total_bytes
                      => k <= Len(Appended)

(* A group with data and quality of different lengths ended a call in     *)
(* InvalidFormat after an earlier group was appended.                     *)
C8_Witness ==
    /\ fmt = "fastq"
    /\ parser.pc = "exit"
    /\ parser.fatal = "InvalidFormat"
    /\ Len(Appended) = 1
    /\ FastqGroups(stream) >= 2
    /\ LET r == FastqFields(FastqGroup(stream, 2))
       IN  /\ r.header # <<>> /\ r.header[1] = "@"
           /\ r.data # <<>> /\ r.quality # <<>>
           /\ Len(r.data) # Len(r.quality)

(* The field delimiter of a line format.                                  *)
Delimiter(f) == IF f = "mhap" THEN " " ELSE "\t"

(* The number of delimiter-separated fields of a line, trailing           *)
(* whitespace apart.                                                      *)
FieldCount(l, d) ==
    LET r == RTrim(l)
    IN  1 + Cardinality({ i \in 1..Len(r) : r[i] = d })

(* The newline-terminated lines of the stream whose newline has been      *)
(* scanned by the current call or lies before where it started.           *)
LinesScanned ==
    { k \in 1..Len(AfterNewlines(stream)) :
          AfterNewlines(stream)[k] <= start.pos + parser.total_bytes }

(* C9: numeric-record and tab-record formats: every record appended comes *)
(* from a line with exactly 12 delimiter-separated fields, and a          *)
(* newline-terminated line with fewer or more than 12 fields ends the     *)
(* call in InvalidFormat with no record appended for it.                  *)
C9_TwelveFields ==
    fmt \in {"mhap", "paf"} =>
        /\ \A j \in 1..Len(Appended) :
              FieldCount(SplitLines(stream, <<>>)[j], Delimiter(fmt)) = 12
        /\ used # {} /\ parser.pc = "loop" =>
              \A k \in LinesScanned : k <= Len(Appended)

(* A well-formed header/sequence/quality stream: whole groups of four     *)
(* newline-terminated lines, '@' header, data, '+' line, quality of the   *)
(* data's length.                                                         *)
WellFormedFastq(x) ==
    /\ NewlineTerminated(x)
    /\ Len(SplitLines(x, <<>>)) % 4 = 0
    /\ \A k \in 1..FastqGroups(x) :
          LET g == FastqGroup(x, k)
          IN  /\ g[1] # <<>> /\ g[1][1] = "@"
              /\ \A i \in 2..Len(g[1]) : Plain(g[1][i])
              /\ PlainLine(g[2])
              /\ g[3] = <<"+">>
              /\ PlainLine(g[4])
              /\ Len(g[2]) = Len(g[4])

(* A well-formed numeric-record or tab-record stream: newline-terminated  *)
(* lines of 12 non-empty fields, one delimiter between two fields and no  *)
(* other whitespace.                                                      *)
WellFormedLines(f, x) ==
    /\ NewlineTerminated(x)
    /\ \A l \in { SplitLines(x, <<>>)[k] : k \in 1..Len(SplitLines(x, <<>>)) } :
          /\ l # <<>>
          /\ FieldCount(l, Delimiter(f)) = 12
          /\ \A i \in 1..Len(l) :
                IF l[i] = Delimiter(f)
                THEN i \in 2..(Len(l) - 1) /\ l[i + 1] # Delimiter(f)
                ELSE ~isspace(l[i])

WellFormed(f, x) ==
    CASE f = "fasta" -> WellFormedFasta(x)
      [] f = "fastq" -> WellFormedFastq(x)
      [] OTHER -> WellFormedLines(f, x)

(* The format whose streams the tests feed to the machine of format f to  *)
(* see it fail (bioparser_test.cpp:164-171, 245-253).                     *)
OtherFormat(f) ==
    CASE f = "fasta" -> "fastq"
      [] f = "fastq" -> "fasta"
      [] f = "mhap" -> "paf"
      [] f = "paf" -> "mhap"

(* Each machine on the well-formed streams of the other format.           *)
InitCross ==
    /\ fmt \in Formats
    /\ stream \in { x \in Streams(OtherFormat(fmt)) : WellFormed(OtherFormat(fmt), x) }
    /\ parser = Idle(fmt)
    /\ used = {}
    /\ start = [pos |-> 0, size |-> 0]
    /\ base = 0
    /\ first = [set |-> FALSE, dst |-> <<>>]
    /\ resets = 0
    /\ entry = NoEntry(fmt)

SpecCross == InitCross /\ [][Next]_vars

(* C10: a machine fed a well-formed, newline-terminated stream of the     *)
(* other format (header/sequence and header/sequence/quality, numeric-    *)
(* record and tab-record) appends no record and does not return from      *)
(* parse_objects: a call without budget ends in InvalidFormat.            *)
C10_OtherFormatIsInvalid ==
    /\ parser.dst = <<>>
    /\ ~(used # {} /\ parser.pc = "idle")
    /\ parser.pc = "exit" /\ parser.max_bytes = 0 => parser.fatal = "InvalidFormat"

(* C11: max_bytes == 0 means no budget: for every format and stream, a    *)
(* call parse_objects(dst, 0) never ends in ChunkTooSmall, never takes the *)
(* budget branch, never rewinds the stream and never returns true; when   *)
(* it returns, it has read to the end of the stream and returns false.    *)
C11_ZeroIsUnbounded ==
    used # {} /\ parser.max_bytes = 0 =>
        /\ parser.fatal # "ChunkTooSmall"
        /\ parser.pc # "return"
        /\ ~parser.status
        /\ parser.pos = start.pos + parser.total_bytes
        /\ parser.pc = "idle" =>
              /\ ~parser.ret
              /\ parser.eof
              /\ parser.pos = Len(stream)

(* An unbounded call that read several buffers, appended records and      *)
(* returned.                                                               *)
C11_Witness ==
    /\ used # {}
    /\ parser.max_bytes = 0
    /\ parser.pc = "idle"
    /\ parser.total_bytes > 2 * kBufferSize
    /\ Len(parser.dst) > start.size

(* C12: once a call has returned false, every further call without a      *)
(* reset, whatever its max_bytes, goes straight to returning false: it     *)
(* reads nothing and leaves the destination and the stream position, at   *)
(* the end of the stream, as they were. After reset() the EOF indicator   *)
(* is clear, the stream is at offset 0, and a parse appends what a parse  *)
(* on a new parser appends.                                                *)
C12_FalseIsFinal ==
    /\ resets = 0 /\ first.set =>
          /\ parser.dst = first.dst
          /\ parser.pos = Len(stream)
          /\ parser.eof
          /\ parser.pc \in {"idle", "loop"}
          /\ parser.pc = "loop" => parser.is_end /\ parser.total_bytes = 0
          /\ parser.pc = "idle" => ~parser.ret
          /\ \A b \in ChunkSizes(fmt) :
                LET r == ParseObjects(fmt, stream, parser, b)
                IN  parser.pc = "idle" =>
                        /\ r.pc = "idle" /\ ~r.ret
                        /\ r.dst = parser.dst /\ r.pos = parser.pos
                        /\ r.total_bytes = 0
    /\ resets > 0 /\ used = {} =>
          /\ parser.pos = 0
          /\ ~parser.eof
          /\ ParseObjects(fmt, stream, parser, 0).dst
                 = parser.dst \o ParseWhole(fmt, stream).dst

(* A call with another max_bytes, made after a call that returned false   *)
(* with records appended, has returned.                                    *)
C12_Witness ==
    /\ resets = 0
    /\ first.set
    /\ first.dst # <<>>
    /\ parser.pc = "idle"
    /\ Cardinality(used) >= 2

(* reset() after a parse that ran to the end of a non-empty stream.       *)
C12_WitnessReset ==
    /\ resets > 0
    /\ used = {}
    /\ first.set
    /\ first.dst # <<>>

(***************************************************************************)
(* Streams whose fields reach and pass the capacities of storage_.         *)
(***************************************************************************)
Chars(c, n) == [i \in 1..n |-> c]

(* Field lengths around the medium and the large region.                  *)
LongLengths == {1, kMSS, kMSS + 1, kLSS, kLSS + 1}

FastaLongRecords ==
    { Join(<< <<">">>, Chars("A", n) >>) : n \in LongLengths }

FastqLongRecords ==
    { Join(<< <<"@">>, Chars("A", n), <<"+">>, Chars("I", q) >>) :
          n \in LongLengths, q \in LongLengths }

(* A 12-field line of the numeric-record format, n bytes long.            *)
MhapLongLine(n) == FieldLine(Chars("1", n - 23), 12, " ")

(* A 12-field line of the tab-record format, n bytes long.                *)
PafLongLine(n) ==
    FieldLine(Chars("a", n - 22) \o <<"\t", "1", "\t", "1", "\t", "1", "\t", "+", "\t", "b", "\t">>,
              6, "\t")

MhapLongRecords ==
    { Join(<<MhapLongLine(n)>>) : n \in {23, kSSS - 1, kSSS, kSSS + 1} }

PafLongRecords ==
    { Join(<<PafLongLine(n)>>) : n \in {23, 3 * kSSS - 1, 3 * kSSS, 3 * kSSS + 1} }

LongRecords(f) ==
    CASE f = "fasta" -> FastaLongRecords
      [] f = "fastq" -> FastqLongRecords
      [] f = "mhap"  -> MhapLongRecords
      [] f = "paf"   -> PafLongRecords

(* One or two records, the second one short.                              *)
LongStreams(f) ==
    LongRecords(f) \cup
    { a \o b : a \in LongRecords(f),
               b \in { x \in LongRecords(f) : Len(x) <= 24 } }

InitStorage ==
    /\ fmt \in Formats
    /\ stream \in LongStreams(fmt)
    /\ parser = Idle(fmt)
    /\ used = {}
    /\ start = [pos |-> 0, size |-> 0]
    /\ base = 0
    /\ first = [set |-> FALSE, dst |-> <<>>]
    /\ resets = 0
    /\ entry = NoEntry(fmt)

SpecStorage == InitStorage /\ [][Next]_vars

(* The capacity storage_ now gives each region of the machine.            *)
NameCapacity == kSSS

DataCapacity ==
    IF fmt = "fastq" THEN parser.quality - kSSS ELSE Len(parser.storage) - kSSS

QualityCapacity == Len(parser.storage) - parser.quality

LineCapacity == Len(parser.storage)

(* C13: in every reachable state of each machine the length of every      *)
(* region (name, data, quality, line) is at most the region's capacity    *)
(* and no byte has been written outside storage_.                          *)
C13_StorageCapacity ==
    /\ ~parser.ub
    /\ parser.pc # "ub"
    /\ fmt \in {"fasta", "fastq"} =>
          /\ parser.name_length <= NameCapacity
          /\ parser.data_length <= DataCapacity
    /\ fmt = "fastq" => parser.quality_length <= QualityCapacity
    /\ fmt \in {"mhap", "paf"} => parser.line_length <= LineCapacity

(* The records of a header/sequence/quality stream, group by group.       *)
ExpectedFastq(x) ==
    [j \in 1..FastqGroups(x) |->
        LET r == FastqFields(FastqGroup(x, j))
        IN  Read(Tail(r.header), r.data, r.quality)]

(* The records a machine whose storage never has to grow hands over.      *)
ExpectedReads(f, x) == IF f = "fasta" THEN ExpectedFasta(x) ELSE ExpectedFastq(x)

(* Every data field of the stream fits the large region.                  *)
DataWithinLarge(f, x) ==
    \A j \in 1..Len(ExpectedReads(f, x)) : Len(ExpectedReads(f, x)[j].data) <= kLSS

(* C14: header/sequence and header/sequence/quality machines: growing     *)
(* storage_ changes no byte of a record. On a well-formed stream whose    *)
(* data fields are at most kLSS long, every record appended - the one     *)
(* that made the storage grow and every later one, of the same or a later *)
(* call - has the name, data and quality bytes of the stream, and no call *)
(* ends in InvalidFormat or writes outside storage_.                       *)
C14_GrowthKeepsBytes ==
    /\ fmt \in {"fasta", "fastq"}
    /\ WellFormed(fmt, stream)
    /\ DataWithinLarge(fmt, stream)
    => /\ parser.fatal # "InvalidFormat"
       /\ ~parser.ub
       /\ Len(Appended) <= Len(ExpectedReads(fmt, stream))
       /\ \A j \in 1..Len(Appended) : Appended[j] = ExpectedReads(fmt, stream)[j]

(* A later call appended a record after the record before it, with data   *)
(* of kMSS bytes or more, had made storage_ grow.                          *)
C14_Witness ==
    /\ fmt = "fastq"
    /\ WellFormed(fmt, stream)
    /\ DataWithinLarge(fmt, stream)
    /\ resets = 0
    /\ Len(parser.storage) > StorageSize(fmt)
    /\ start.size = 1
    /\ Len(parser.dst) = 2
    /\ Len(parser.dst[1].data) >= kMSS

(***************************************************************************)
(* Streams of the line formats whose 12 fields all differ.                 *)
(***************************************************************************)
RECURSIVE JoinFields(_, _)
JoinFields(fs, d) ==
    IF fs = <<>> THEN <<>>
    ELSE IF Len(fs) = 1 THEN fs[1]
    ELSE fs[1] \o <<d>> \o JoinFields(Tail(fs), d)

MhapFieldLines ==
    { JoinFields(<< <<"1">>, <<"2">>, <<"0", ".", "3">>, <<"4">>, <<"0">>, <<"5">>,
                    <<"6">>, <<"7">>, <<"1">>, <<"8">>, <<"9">>, <<"1", "0">> >>, " "),
      JoinFields(<< <<"3">>, <<"1">>, <<"1", ".", "5">>, <<"2">>, <<"1">>, <<"0">>,
                    <<"4">>, <<"9">>, <<"0">>, <<"2">>, <<"6">>, <<"8">> >>, " "),
      FieldLine(<<>>, 12, " ") }

PafFieldLines ==
    { JoinFields(<< <<"a">>, <<"1">>, <<"2">>, <<"3">>, <<"-">>, <<"b">>,
                    <<"4">>, <<"5">>, <<"6">>, <<"7">>, <<"8">>, <<"9">> >>, "\t"),
      JoinFields(<< <<"c", "d">>, <<"9">>, <<"0">>, <<"8">>, <<"+">>, <<"e">>,
                    <<"7">>, <<"1">>, <<"6">>, <<"2">>, <<"5">>, <<"3">> >>, "\t"),
      JoinFields(<< <<"1">>, <<"1">>, <<"1">>, <<"1">>, <<"1">>, <<"1">>,
                    <<"1">>, <<"1">>, <<"1">>, <<"1">>, <<"1">>, <<"1">> >>, "\t"),
      JoinFields(<< <<"f">>, <<"2">>, <<"0">>, <<"1">>, <<"+">>, <<"g", " ">>,
                    <<"3">>, <<"0">>, <<"2">>, <<"1">>, <<"1">>, <<"4">> >>, "\t") }

FieldStreams(f) ==
    Terminated(IF f = "mhap" THEN MhapFieldLines ELSE PafFieldLines, MaxRecordLines)

InitFields ==
    /\ fmt \in {"mhap", "paf"}
    /\ stream \in FieldStreams(fmt)
    /\ parser = Idle(fmt)
    /\ used = {}
    /\ start = [pos |-> 0, size |-> 0]
    /\ base = 0
    /\ first = [set |-> FALSE, dst |-> <<>>]
    /\ resets = 0
    /\ entry = NoEntry(fmt)

SpecFields == InitFields /\ [][Next]_vars

RECURSIVE SplitAt(_, _, _)
(* The fields of a line: the byte runs between its delimiters.            *)
SplitAt(l, d, cur) ==
    IF l = <<>> THEN <<cur>>
    ELSE IF Head(l) = d THEN <<cur>> \o SplitAt(Tail(l), d, <<>>)
    ELSE SplitAt(Tail(l), d, Append(cur, Head(l)))

(* The record of a line of 12 fields: numbers by position, and for the    *)
(* tab-record format the two names as bytes and the orientation byte.     *)
ExpectedOverlap(f, fs) ==
    [k \in 1..12 |->
        IF f = "mhap" THEN (IF k = 3 THEN atof(fs[k]) ELSE atoi(fs[k]))
        ELSE IF k \in {1, 6} THEN fs[k]
        ELSE IF k = 5 THEN fs[k][1]
        ELSE atoi(fs[k])]

ExpectedOverlaps(f, x) ==
    [k \in 1..Len(SplitLines(x, <<>>)) |->
        ExpectedOverlap(f, SplitAt(SplitLines(x, <<>>)[k], Delimiter(f), <<>>))]

(* C15: numeric-record and tab-record formats, call without budget: on a  *)
(* stream of N newline-terminated lines of 12 non-empty fields with one   *)
(* delimiter between two fields, the call appends N records in line       *)
(* order, record k holding the values of the fields of line k in their    *)
(* positions.                                                              *)
C15_LineRecords ==
    fmt \in {"mhap", "paf"} /\ (stream = <<>> \/ WellFormedLines(fmt, stream)) =>
        /\ parser.fatal # "InvalidFormat"
        /\ resets = 0 /\ used = {0} /\ LoopEnded =>
              /\ Len(parser.dst) = Len(SplitLines(stream, <<>>))
              /\ \A k \in 1..Len(parser.dst) :
                    \A i \in 1..12 :
                        parser.dst[k][i] = ExpectedOverlaps(fmt, stream)[k][i]

(* Lines of 12 non-empty fields with one delimiter between two fields,   *)
(* whatever bytes the fields hold.                                        *)
TwelveNonEmptyFields(f, x) ==
    /\ NewlineTerminated(x)
    /\ \A k \in 1..Len(SplitLines(x, <<>>)) :
          LET fs == SplitAt(SplitLines(x, <<>>)[k], Delimiter(f), <<>>)
          IN  Len(fs) = 12 /\ \A i \in 1..12 : fs[i] # <<>>

(* C15 as stated: the same for every line of 12 non-empty fields, a name *)
(* field that ends in whitespace included.                                *)
C15_LineRecordsOfAnyFields ==
    fmt \in {"mhap", "paf"} /\ TwelveNonEmptyFields(fmt, stream) =>
        /\ parser.fatal # "InvalidFormat"
        /\ resets = 0 /\ used = {0} /\ LoopEnded =>
              /\ Len(parser.dst) = Len(SplitLines(stream, <<>>))
              /\ \A k \in 1..Len(parser.dst) :
                    \A i \in 1..12 :
                        parser.dst[k][i] = ExpectedOverlaps(fmt, stream)[k][i]

(* A call without budget has appended two records with different fields. *)
C15_Witness ==
    /\ fmt \in {"mhap", "paf"}
    /\ WellFormedLines(fmt, stream)
    /\ resets = 0 /\ used = {0} /\ LoopEnded
    /\ Len(parser.dst) = 2
    /\ parser.dst[1] # parser.dst[2]
    /\ parser.dst[1][2] # parser.dst[1][4]

RECURSIVE SingleSpaces(_, _)
(* The stream with every run of whitespace bytes inside a line replaced   *)
(* by one space; inrun tells that the previous byte was whitespace.       *)
SingleSpaces(x, inrun) ==
    IF x = <<>> THEN <<>>
    ELSE IF Head(x) = NL THEN <<NL>> \o SingleSpaces(Tail(x), FALSE)
    ELSE IF isspace(Head(x))
         THEN (IF inrun THEN <<>> ELSE <<" ">>) \o SingleSpaces(Tail(x), TRUE)
    ELSE <<Head(x)>> \o SingleSpaces(Tail(x), FALSE)

(* C16: numeric-record format: a line whose 12 fields are separated by    *)
(* runs of one or more whitespace bytes is accepted and yields the record *)
(* of the line with each run replaced by one space.                       *)
C16_WhitespaceRuns ==
    fmt = "mhap" /\ WellFormedLines("mhap", SingleSpaces(stream, FALSE)) =>
        /\ parser.fatal # "InvalidFormat"
        /\ resets = 0 /\ used = {0} /\ LoopEnded =>
              /\ Len(parser.dst) = Len(SplitLines(stream, <<>>))
              /\ \A k \in 1..Len(parser.dst) :
                    \A i \in 1..12 :
                        parser.dst[k][i] =
                            ExpectedOverlaps("mhap", SingleSpaces(stream, FALSE))[k][i]

(* C17: header/sequence/quality format: a stream whose last quality line  *)
(* has no newline yields, on a call without budget, the records of the    *)
(* same stream with a trailing newline.                                   *)
C17_FinalLineWithoutNewline ==
    /\ fmt = "fastq"
    /\ stream # <<>> /\ ~NewlineTerminated(stream)
    /\ WellFormedFastq(stream \o <<NL>>)
    => /\ parser.fatal # "InvalidFormat"
       /\ resets = 0 /\ used = {0} /\ LoopEnded =>
             parser.dst = ExpectedFastq(stream \o <<NL>>)

(* A line that opens a record: its first byte is the marker.               *)
MarkerLine(l) == l # <<>> /\ l[1] = ">"

(* A header/sequence stream in which the marker may also occur inside a   *)
(* line: newline-terminated lines without whitespace, a marker line       *)
(* first, one or more non-empty lines after each marker line.             *)
MarkedFasta(x) ==
    /\ NewlineTerminated(x)
    /\ LET ls == SplitLines(x, <<>>)
       IN  /\ MarkerLine(ls[1])
           /\ ~MarkerLine(ls[Len(ls)])
           /\ \A k \in 1..Len(ls) :
                 /\ ls[k] # <<>>
                 /\ \A i \in 1..Len(ls[k]) : ~isspace(ls[k][i])
                 /\ MarkerLine(ls[k]) /\ k < Len(ls) => ~MarkerLine(ls[k + 1])

(* One record per marker line: the name is the rest of the marker line,   *)
(* the data the lines up to the next marker line, markers inside a line   *)
(* kept as bytes.                                                         *)
RECURSIVE MarkerRecords(_, _)
MarkerRecords(ls, acc) ==
    IF ls = <<>> THEN acc
    ELSE IF MarkerLine(Head(ls))
    THEN MarkerRecords(Tail(ls), Append(acc, Read(Tail(Head(ls)), <<>>, <<>>)))
    ELSE MarkerRecords(Tail(ls),
             [acc EXCEPT ![Len(acc)].data = acc[Len(acc)].data \o Head(ls)])

(* C18: header/sequence format: only a marker at the first byte of a line *)
(* after the header line opens a record; a marker inside the header line  *)
(* or inside a data line is a byte of the name or of the data, so the     *)
(* records appended are those of the marker lines, in order.              *)
C18_MarkerOnlyAtLineStart ==
    fmt = "fasta" /\ MarkedFasta(stream) =>
        /\ parser.fatal # "InvalidFormat"
        /\ Len(Appended) <= Len(MarkerRecords(SplitLines(stream, <<>>), <<>>))
        /\ \A j \in 1..Len(Appended) :
              Appended[j] = MarkerRecords(SplitLines(stream, <<>>), <<>>)[j]

(* What the validation before emplace_back lets through, format by        *)
(* format, told from the record.                                          *)
CompleteRecord(f, e) ==
    CASE f = "fasta" -> e.data # <<>> /\ e.quality = <<>>
      [] f = "fastq" -> e.data # <<>> /\ Len(e.quality) = Len(e.data)
      [] f = "mhap"  -> Len(e) = 12
      [] f = "paf"   -> Len(e) = 12 /\ e[1] # <<>> /\ e[6] # <<>>

(* Line formats: record j since construction or reset stands for line j,  *)
(* whose newline has been scanned and which has its 12 fields.            *)
FromWholeLines ==
    fmt \in {"mhap", "paf"} =>
        \A j \in 1..Len(Appended) :
            /\ j \in LinesScanned
            /\ FieldCount(SplitLines(stream, <<>>)[j], Delimiter(fmt)) >= 12

(* C19: parse_objects only appends: in every step of every call, whatever *)
(* its outcome, the elements dst held stay where they were, unchanged, and *)
(* each element added is a complete record that passed the validation of  *)
(* its format.                                                            *)
C19_AppendOnly ==
    /\ [][/\ Len(parser'.dst) >= Len(parser.dst)
          /\ SubSeq(parser'.dst, 1, Len(parser.dst)) = parser.dst
          /\ \A j \in (Len(parser.dst) + 1)..Len(parser'.dst) :
                CompleteRecord(fmt, parser'.dst[j])]_vars
    /\ []FromWholeLines

(* A call that found records in dst has returned after appending to them, *)
(* and a later call on the same dst has ended in a fatal error.           *)
C19_Witness ==
    /\ parser.pc = "exit"
    /\ parser.fatal # "none"
    /\ start.size > 0
    /\ Len(parser.dst) > start.size

(***************************************************************************)
(* Parser<T>::parse_objects(std::vector<std::shared_ptr<T>>&, uint64_t).   *)
(***************************************************************************)
RECURSIVE MoveAllReversed(_, _)
MoveAllReversed(tmp, dst) ==
    IF tmp = <<>> THEN dst
    ELSE MoveAllReversed(SubSeq(tmp, 1, Len(tmp) - 1), Append(dst, tmp[Len(tmp)]))

(* for (auto& it: tmp) dst.emplace_back(std::move(it));                   *)
RECURSIVE MoveAll(_, _)
MoveAll(tmp, dst) ==
    IF tmp = <<>> THEN dst
    ELSE MoveAll(Tail(tmp), Append(dst, Head(tmp)))

(* std::vector<std::unique_ptr<T>> tmp; this->parse_objects(tmp,          *)
(* max_bytes): the caller calls the shared-ownership overload, which      *)
(* enters the exclusive one on the empty vector tmp.                      *)
CallShared(max_bytes) ==
    /\ parser.pc = "idle"
    /\ used = {} \/ max_bytes \in used \/ ~parser.ret
    /\ parser' = EnterCall(fmt, [parser EXCEPT !.dst = <<>>], max_bytes)
    /\ entry' = [called |-> TRUE, m |-> parser, max_bytes |-> max_bytes]
    /\ used' = used \cup {max_bytes}
    /\ start' = [pos |-> parser.pos, size |-> 0]
    /\ UNCHANGED <<fmt, stream, base, first, resets>>

(* The exclusive variant has returned into the overload: tmp is moved to  *)
(* the end of the caller's dst and ret is returned.                       *)
ReturnShared ==
    /\ parser.pc = "return" \/ (parser.pc = "loop" /\ parser.is_end)
    /\ parser' = [ReturnStep(parser) EXCEPT !.dst = MoveAll(parser.dst, entry.m.dst)]
    /\ UNCHANGED <<fmt, stream, used, start, base, first, resets, entry>>

NextShared ==
    \/ \E max_bytes \in ChunkSizes(fmt) : CallShared(max_bytes)
    \/ Fread
    \/ Scan
    \/ ReturnShared
    \/ Reset

SpecShared == Init /\ [][NextShared]_vars

(* C20: every call of the shared-ownership overload ends as the           *)
(* exclusive-ownership one would from the same parser state with the same *)
(* max_bytes and the same elements in dst: the same fatal error or, when  *)
(* it returns, the same flag, the same stream position and the same dst,  *)
(* the new records after the elements already present.                    *)
C20_SharedEqualsExclusive ==
    entry.called /\ parser.pc \in {"idle", "exit", "ub"} =>
        LET e == ParseObjects(fmt, stream, entry.m, entry.max_bytes)
        IN  /\ parser.pc = e.pc
            /\ parser.fatal = e.fatal
            /\ parser.pc = "idle" =>
                  /\ parser.ret = e.ret
                  /\ parser.pos = e.pos
                  /\ parser.eof = e.eof
                  /\ parser.dst = e.dst

(* A shared-ownership call that found elements in dst has returned after  *)
(* appending two records to them.                                         *)
C20_Witness ==
    /\ parser.pc = "idle"
    /\ entry.called
    /\ Len(entry.m.dst) > 0
    /\ Len(parser.dst) >= Len(entry.m.dst) + 2
    /\ parser.dst[Len(parser.dst)] # parser.dst[Len(parser.dst) - 1]

(* The bytes of the current call's refills that were within the budget    *)
(* when counted: all bytes read but those of the refill over the budget.  *)
WithinBudgetBytes ==
    IF parser.total_bytes > parser.max_bytes
    THEN parser.total_bytes - parser.read_bytes
    ELSE parser.total_bytes

(* C21: in a call with max_bytes # 0 the budget is compared once per      *)
(* refill, after the refill is counted and before its bytes are scanned:  *)
(* a refill is scanned only while the bytes read by the call are at most  *)
(* max_bytes; the first refill that takes the count above max_bytes ends  *)
(* the call unscanned (return true or ChunkTooSmall), and the records the *)
(* call appended are those complete within the refills before it.         *)
C21_BudgetPerRefill ==
    used # {} /\ parser.max_bytes # 0 =>
        /\ parser.pc = "scan" => parser.total_bytes <= parser.max_bytes
        /\ parser.pc = "loop" => parser.total_bytes <= parser.max_bytes
        /\ parser.status => parser.total_bytes > parser.max_bytes
        /\ parser.total_bytes > parser.max_bytes =>
              /\ parser.pc \in {"return", "idle", "exit"}
              /\ parser.fatal \in {"none", "ChunkTooSmall"}
              /\ parser.total_bytes - parser.read_bytes <= parser.max_bytes
              /\ Len(parser.dst) - start.size
                    = Cardinality(CompletedWithin(WithinBudgetBytes))

(* A bounded call has returned true at a refill that held the end of a    *)
(* record: that record was left for the next call.                        *)
C21_Witness ==
    /\ ReturnedTrue
    /\ parser.max_bytes # 0
    /\ parser.total_bytes > parser.max_bytes
    /\ CompletedWithin(parser.total_bytes) # CompletedWithin(WithinBudgetBytes)

(***************************************************************************)
(* The caller's loop while (parser->parse_objects(dst, max_bytes)) {} as   *)
(* it runs.                                                                *)
(***************************************************************************)
(* The caller calls again, and a call in progress takes its next step:     *)
(* weak fairness of each step of the program (not of Reset, which the      *)
(* caller is free never to call). A Scan step is possible exactly when pc  *)
(* is "scan" and always leaves it, so weak fairness of Scan is stated as   *)
(* what it means here: pc is not "scan" forever.                           *)
LoopFairness ==
    /\ WF_vars(\E max_bytes \in ChunkSizes(fmt) : Call(max_bytes))
    /\ WF_vars(Fread)
    /\ WF_vars(Return)
    /\ []<>(parser.pc # "scan")

SpecLoop == Init /\ [][Next]_vars /\ LoopFairness

(* The loop is over: a call returned false, or exit(1) ended the process. *)
LoopFinished == LoopEnded \/ parser.pc \in {"exit", "ub"}

(* C22: every call that returns true has appended at least one record and *)
(* left the stream position beyond where the call started; and the loop   *)
(* of calls with one max_bytes always reaches a call that returns false   *)
(* or ends in a fatal error.                                               *)
C22_ProgressAndTermination ==
    /\ [](ReturnedTrue => /\ Len(parser.dst) > start.size
                          /\ parser.pos > start.pos)
    /\ []<>LoopFinished

(* A second call of a loop has returned true: the loop went on from where *)
(* the first call left the stream.                                         *)
C22_Witness ==
    /\ ReturnedTrue
    /\ start.pos > 0
    /\ parser.pos > start.pos
    /\ Len(parser.dst) > start.size

(* A parser newly created on the stream and put at the position and      *)
(* end-of-stream flag of m, with m's dst: storage_ as constructed, no     *)
(* earlier call.                                                          *)
WithoutHistory(f, m) ==
    [Idle(f) EXCEPT !.pos = m.pos, !.eof = m.eof, !.dst = m.dst]

(* What a caller can see of a call that has ended.                        *)
Outcome(m) ==
    [pc |-> m.pc, fatal |-> m.fatal, ub |-> m.ub, dst |-> m.dst,
     ret |-> IF m.pc = "idle" THEN m.ret ELSE FALSE,
     pos |-> IF m.pc = "idle" THEN m.pos ELSE 0,
     eof |-> IF m.pc = "idle" THEN m.eof ELSE FALSE]

RECURSIVE FinalLine(_)
FinalLine(x) ==
    IF x = <<>> \/ x[Len(x)] = NL THEN <<>>
    ELSE Append(FinalLine(SubSeq(x, 1, Len(x) - 1)), x[Len(x)])

(* The non-empty lines of the stream, the unterminated final one          *)
(* included.                                                              *)
NonEmptyLines(x) ==
    LET ls == SplitLines(x, <<>>) \o <<FinalLine(x)>>
        Full(l) == l # <<>>
    IN  SelectSeq(ls, Full)

(* C24: numeric-record and tab-record formats: when the loop of calls has *)
(* ended with a call that returned false (no fatal error), every          *)
(* non-empty line of the stream, a final line without newline included,   *)
(* has been appended as a record.                                         *)
C24_NoLineDiscarded ==
    fmt \in {"mhap", "paf"} /\ LoopEnded =>
        Len(Appended) = Len(NonEmptyLines(stream))

(***************************************************************************)
(* Streams whose names are about as long as the small region.              *)
(***************************************************************************)
NameLengths == {1, kSSS - 2, kSSS - 1, kSSS, kSSS + 1}

(* A name of n bytes, no two neighbours alike.                            *)
NameOf(n) ==
    [i \in 1..n |-> IF i % 3 = 1 THEN "B" ELSE IF i % 3 = 2 THEN "C" ELSE "D"]

FastaNamedRecords ==
    { Join(<< <<">">> \o NameOf(n), <<"A">> >>) : n \in NameLengths }

FastqNamedRecords ==
    { Join(<< <<"@">> \o NameOf(n), <<"A">>, <<"+">>, <<"I">> >>) : n \in NameLengths }

PafNamedLine(n, m) ==
    JoinFields(<< NameOf(n), <<"1">>, <<"2">>, <<"3">>, <<"+">>, NameOf(m),
                  <<"4">>, <<"5">>, <<"6">>, <<"7">>, <<"8">>, <<"9">> >>, "\t")

PafNamedRecords ==
    { Join(<< PafNamedLine(n, 1) >>) : n \in NameLengths } \cup
    { Join(<< PafNamedLine(1, m) >>) : m \in NameLengths }

NamedRecords(f) ==
    CASE f = "fasta" -> FastaNamedRecords
      [] f = "fastq" -> FastqNamedRecords
      [] f = "paf"   -> PafNamedRecords

(* One or two records.                                                    *)
NamedStreams(f) ==
    NamedRecords(f) \cup { a \o b : a \in NamedRecords(f), b \in NamedRecords(f) }

InitNames ==
    /\ fmt \in {"fasta", "fastq", "paf"}
    /\ stream \in NamedStreams(fmt)
    /\ parser = Idle(fmt)
    /\ used = {}
    /\ start = [pos |-> 0, size |-> 0]
    /\ base = 0
    /\ first = [set |-> FALSE, dst |-> <<>>]
    /\ resets = 0
    /\ entry = NoEntry(fmt)

SpecNames == InitNames /\ [][Next]_vars

(* The first bytes of a name, as many as cap.                             *)
Truncated(name, cap) == SubSeq(name, 1, Min(Len(name), cap))

(* Line k of the stream, and field i of a line, by the places of the      *)
(* newlines and of the delimiters.                                        *)
LineOf(x, k) ==
    LET nl == AfterNewlines(x)
    IN  SubSeq(x, (IF k = 1 THEN 0 ELSE nl[k - 1]) + 1, nl[k] - 1)

FieldOf(l, d, i) ==
    LET Is(k) == l[k] = d
        ds == SelectSeq([k \in 1..Len(l) |-> k], Is)
    IN  SubSeq(l, (IF i = 1 THEN 0 ELSE ds[i - 1]) + 1,
                  IF i <= Len(ds) THEN ds[i] - 1 ELSE Len(l))

(* The names of record j of the stream, as the stream spells them (the    *)
(* header line of a record of two lines or of four, without its marker;   *)
(* fields 1 and 6 of line j), and the names of a record appended.         *)
SourceNames(f, x, j) ==
    CASE f = "fasta" -> <<Tail(LineOf(x, 2 * j - 1))>>
      [] f = "fastq" -> <<Tail(LineOf(x, 4 * j - 3))>>
      [] f = "paf"   -> <<FieldOf(LineOf(x, j), "\t", 1), FieldOf(LineOf(x, j), "\t", 6)>>

EmittedNames(f, e) ==
    IF f = "paf" THEN <<e[1], e[6]>> ELSE <<e.name>>

(* The bytes of a name that are kept: the small region holds the marker   *)
(* too in the header formats.                                             *)
NameBytesKept(f) == IF f = "paf" THEN kSSS ELSE kSSS - 1

(* C25: names are bounded by the small region and truncated, not          *)
(* rejected: the header formats store at most kSSS bytes of a header      *)
(* line, marker included, and drop the rest without error; the tab-record *)
(* format hands over min(trimmed length, kSSS) bytes of each name; every  *)
(* name appended has at most kSSS bytes and is the prefix of that length  *)
(* of the name in the stream.                                             *)
C25_NamesTruncated ==
    fmt \in {"fasta", "fastq", "paf"} =>
        /\ parser.fatal # "InvalidFormat"
        /\ ~parser.ub
        /\ parser.name_length <= kSSS
        /\ \A j \in 1..Len(Appended) :
              \A i \in 1..Len(EmittedNames(fmt, Appended[j])) :
                  /\ Len(EmittedNames(fmt, Appended[j])[i]) <= kSSS
                  /\ EmittedNames(fmt, Appended[j])[i]
                        = Truncated(SourceNames(fmt, stream, j)[i], NameBytesKept(fmt))

(* A name longer than the small region has been appended, cut short.      *)
C25_Witness ==
    /\ fmt \in {"fasta", "fastq", "paf"}
    /\ Len(Appended) = 2
    /\ \E i \in 1..Len(EmittedNames(fmt, Appended[2])) :
          /\ Len(SourceNames(fmt, stream, 2)[i]) > NameBytesKept(fmt)
          /\ Len(EmittedNames(fmt, Appended[2])[i]) = NameBytesKept(fmt)

(***************************************************************************)
(* Streams whose header lines have whitespace between the marker and the   *)
(* name.                                                                   *)
(***************************************************************************)
SpacedNames == { <<"B">>, <<" ", "B">>, <<"\t", " ", "B", "C">> }

SpacedRecords(f) ==
    IF f = "fasta"
    THEN { Join(<< <<">">> \o n, <<"A">> >>) : n \in SpacedNames }
    ELSE { Join(<< <<"@">> \o n, <<"A">>, <<"+">>, <<"I">> >>) : n \in SpacedNames }

(* One or two records.                                                    *)
SpacedStreams(f) ==
    SpacedRecords(f) \cup { a \o b : a \in SpacedRecords(f), b \in SpacedRecords(f) }

InitHeaders ==
    /\ fmt \in {"fasta", "fastq"}
    /\ stream \in SpacedStreams(fmt)
    /\ parser = Idle(fmt)
    /\ used = {}
    /\ start = [pos |-> 0, size |-> 0]
    /\ base = 0
    /\ first = [set |-> FALSE, dst |-> <<>>]
    /\ resets = 0
    /\ entry = NoEntry(fmt)

SpecHeaders == InitHeaders /\ [][Next]_vars

(* C26: header/sequence and header/sequence/quality formats: the name of  *)
(* every record appended, the first and every later one, does not begin   *)
(* with a whitespace byte: it is the name of its header line without the  *)
(* whitespace before its first byte.                                      *)
C26_LeadingWhitespaceSkipped ==
    fmt \in {"fasta", "fastq"} =>
        \A j \in 1..Len(Appended) :
            /\ Appended[j].name = <<>> \/ ~isspace(Appended[j].name[1])
            /\ Appended[j].name = LTrim(SourceNames(fmt, stream, j)[1])

====
